---- MODULE Spec2Model ----
(***************************************************************************)
(* A model of the `mileage` crate: CharRange, its iterator, the mutable    *)
(* range-list set CharSetBuf, and the read-only CharTrie with its          *)
(* generator.                                                              *)
(*                                                                         *)
(* A `char` is modelled by its u32 scalar value.  A CharRange is the       *)
(* record [low |-> .., high |-> ..]; a range list is a sequence of such    *)
(* records.  Rust indices are 0-based, so ranges[i] of the code is         *)
(* rs[i + 1] here.                                                         *)
(*                                                                         *)
(* The crate is built either with debug assertions and overflow checks     *)
(* (the `debug` profile) or without them (`release`); the variable `build` *)
(* fixes the profile of a run.  An operation's result is the record        *)
(* [ranges |-> the list it leaves, status |-> "ok" or the panic].          *)
(***************************************************************************)
EXTENDS Integers, Sequences, FiniteSets, TLC

VARIABLES
    build,      \* "debug" or "release": the profile the crate was built with
    ranges,     \* CharSetBuf.ranges
    s0,         \* the range list right after construction
    prev,       \* the range list before the last call
    op,         \* the last call: "new", "from", "insert", "insert_range", ...
    arg,        \* the argument of the last call, as a CharRange (c..=c for a char)
    status,     \* "ok", or the panic that ended the last call
    nops,       \* number of calls made on the set so far
    it,         \* range::Iter: [low |-> .., high |-> ..]
    src,        \* the CharRange the iterator was made from
    outF,       \* the values next() has returned so far, in order
    outB,       \* the values next_back() has returned so far, in order
    ended,      \* "no", or the method that returned None last
    nones,      \* number of calls on the iterator that returned None
    fn,         \* the last call that is checked by its return value
    inp,        \* the inputs of that call
    ret,        \* the value that call returned
    ranges2,    \* the range list of a second CharSetBuf
    status2,    \* "ok", or the panic that ended the last call on the second set
    nops2,      \* number of calls made on the second set
    pred,       \* the chars a trie is generated for: those its predicate holds of
    trie        \* the generated CharTrie tables, or why there are none

setvars  == <<build, ranges, s0, prev, op, arg, status, nops>>
itervars == <<it, src, outF, outB, ended, nones>>
callvars == <<fn, inp, ret>>
pairvars == <<ranges2, status2, nops2>>
trievars == <<pred, trie>>
vars     == <<build, ranges, s0, prev, op, arg, status, nops,
              it, src, outF, outB, ended, nones,
              fn, inp, ret, ranges2, status2, nops2, pred, trie>>

---------------------------------------------------------------------------
(* Program constants                                                       *)

BEFORE_SURROGATE == 55295       \* '\u{D7FF}'
AFTER_SURROGATE  == 57344       \* '\u{E000}'
CHAR_MAX         == 1114111     \* char::MAX = '\u{10FFFF}'

---------------------------------------------------------------------------
(* Bounds of the model                                                     *)

LowSpan   == 3      \* the sampled chars at the bottom are 0 .. LowSpan
MaxOps    == 3      \* calls made on a set built by new()
MaxOpsFrom == 2     \* calls made on a set built by from(range)
MaxRanges == 3      \* ranges of a canonical set the single-call checks start from
MaxIter   == 6      \* members of a range that is iterated
MaxNones  == 3      \* calls on an iterator that return None
MaxOpsPair == 2     \* calls made on each of two sets that are compared

\* The geometry of the trie the model generates; the crate's is in brackets.
LeafBits  == 2      \* bits of a leaf word [64, a u64]
L1Words   == 2      \* words of level1 [32]
L2Chunks  == 3      \* bytes of level2, one a chunk of LeafBits chars [992]
L3Blocks  == 2      \* bytes of level3.0, one a block of BlockLen chunks [256]
BlockLen  == 2      \* bytes of a block of level3.1 [64]
IndexCap  == 3      \* values an index byte can take [256, a u8]
MaxChars  == 3      \* chars collected into a set by from_iter

\* The chars handed to the operations: the bottom of the scalar values, both
\* sides of the surrogate hole, and the top.
SampleChars == (0 .. LowSpan) \cup {BEFORE_SURROGATE, AFTER_SURROGATE, CHAR_MAX}

\* Every pair (low, high) of sampled chars, the empty ones (low > high) included.
SampleRanges == [low : SampleChars, high : SampleChars]

\* Every bound a stored range can get from the sampled arguments is a sampled
\* char, its successor or its predecessor; membership is constant between two
\* consecutive such values, so it is decided by these probes (4096 and 61440
\* stand for the two long stretches no bound falls in).
ProbeChars ==
    (0 .. LowSpan + 1)
        \cup {4096, BEFORE_SURROGATE - 1, BEFORE_SURROGATE}
        \cup {AFTER_SURROGATE, AFTER_SURROGATE + 1, 61440}
        \cup {CHAR_MAX - 1, CHAR_MAX}

Builds == {"debug", "release"}

---------------------------------------------------------------------------
(* Vec<CharRange> helpers (0-based index i)                                *)

\* Vec::insert(i, x)
vec_insert(s, i, x) == SubSeq(s, 1, i) \o <<x>> \o SubSeq(s, i + 1, Len(s))

\* Vec::remove(i)
vec_remove(s, i) == SubSeq(s, 1, i) \o SubSeq(s, i + 2, Len(s))

\* Vec::drain((Bound::Excluded(lo), Bound::Excluded(hi))): drops the elements
\* lo+1 .. hi-1.  The slice range lo+1 .. hi must be well formed.
drain_ok(s, lo, hi) == lo + 1 <= hi /\ hi <= Len(s)
vec_drain(s, lo, hi) == SubSeq(s, 1, lo + 1) \o SubSeq(s, hi + 1, Len(s))

vec_set(s, i, x) == [s EXCEPT ![i + 1] = x]

---------------------------------------------------------------------------
(* CharRange                                                               *)

closed(low, high) == [low |-> low, high |-> high]

singleton(c) == closed(c, c)

empty == [low |-> CHAR_MAX, high |-> 0]

is_empty(r) == r.low > r.high

\* CharRange::contains with the high end left out.
contains_below_high(r, c) == (r.low <= c) /\ (c < r.high)

contains(r, c) == (r.low <= c) /\ (c <= r.high)

\* impl From<R: RangeBounds<char>> for CharRange.  A bound is <<kind, c>> with
\* kind one of "Included", "Excluded", "Unbounded".
Included(c) == <<"Included", c>>
Excluded(c) == <<"Excluded", c>>
Unbounded   == <<"Unbounded", 0>>

\* The low of From<RangeBounds> without the surrogate test: c + 1 after every
\* excluded start c.
from_low_dense(sb) ==
    CASE sb[1] = "Excluded" -> sb[2] + 1
      [] sb[1] = "Included"  -> sb[2]
      [] sb[1] = "Unbounded" -> 0

from_low(sb) ==
    CASE sb[1] = "Excluded" ->
            IF sb[2] = BEFORE_SURROGATE THEN AFTER_SURROGATE ELSE sb[2] + 1
      [] sb[1] = "Included"  -> sb[2]
      [] sb[1] = "Unbounded" -> 0

\* from_high without the surrogate test: Excluded(c) always ends at c - 1.
from_high_dense(eb) ==
    CASE eb[1] = "Excluded" -> eb[2] - 1
      [] eb[1] = "Included"  -> eb[2]
      [] eb[1] = "Unbounded" -> CHAR_MAX

from_high(eb) ==
    CASE eb[1] = "Excluded" ->
            IF eb[2] = AFTER_SURROGATE THEN BEFORE_SURROGATE ELSE eb[2] - 1
      [] eb[1] = "Included"  -> eb[2]
      [] eb[1] = "Unbounded" -> CHAR_MAX

from_bounds(sb, eb) ==
    IF sb[1] = "Excluded" /\ sb[2] = CHAR_MAX THEN empty
    ELSE IF eb[1] = "Excluded" /\ eb[2] = 0 THEN empty
    ELSE [low |-> from_low(sb), high |-> from_high(eb)]

\* CharRange::cmp_char that takes the range's high for a char above it.
cmp_char_high_open(r, c, dbg) ==
    IF dbg /\ is_empty(r) THEN "Panic"
    ELSE IF r.high <= c THEN "Less"
    ELSE IF r.low > c THEN "Greater"
    ELSE "Equal"

\* CharRange::cmp_char; "Panic" is the debug assertion on an empty range.
cmp_char(r, c, dbg) ==
    IF dbg /\ is_empty(r) THEN "Panic"
    ELSE IF r.high < c THEN "Less"
    ELSE IF r.low > c THEN "Greater"
    ELSE "Equal"

\* Iter::len without the surrogate test: the length of the u32 range.
iter_len_dense(r) == IF r.high + 1 > r.low THEN r.high + 1 - r.low ELSE 0

\* impl ExactSizeIterator for Iter (also CharRange::len): the length of the
\* u32 range low .. high + 1, less the surrogates when the range spans them.
iter_len(r) ==
    LET len == IF r.high + 1 > r.low THEN r.high + 1 - r.low ELSE 0
    IN  IF r.low <= BEFORE_SURROGATE /\ r.high >= AFTER_SURROGATE
        THEN len - (AFTER_SURROGATE - (BEFORE_SURROGATE + 1))
        ELSE len

\* Iterator::size_hint for Iter: (lower, upper)
size_hint(i) == <<iter_len(i), <<"Some", iter_len(i)>>>>

\* Iterator::count for Iter
count(i) == iter_len(i)

\* CharRange::len: self.iter().len()
range_len(r) == iter_len([low |-> r.low, high |-> r.high])

---------------------------------------------------------------------------
(* u32 subtraction `a as u32 - b as u32` of two chars.  With overflow checks *)
(* (debug) a < b panics.  Without them the difference wraps to              *)
(* 2^32 - (b - a) >= 2^32 - 0x10FFFF, which is neither == 1 nor <= 1.       *)

underflows(a, b) == a < b

diff_eq_one(a, b) == a >= b /\ a - b = 1

diff_le_one(a, b) == a >= b /\ a - b <= 1

---------------------------------------------------------------------------
(* CharSet::search: slice::binary_search_by(|r| r.cmp_char(c)).  The slice  *)
(* method bisects left..right on the comparator's answer; which element of  *)
(* the interval it probes is not part of its contract, so every probe is    *)
(* allowed.  On a sorted list of disjoint non-empty ranges the result does  *)
(* not depend on the probes.  A result is <<"Ok", i>>, <<"Err", i>> or      *)
(* <<"Panic", 0>> (cmp_char's debug assertion).                             *)

RECURSIVE bisect(_, _, _, _, _)
bisect(rs, c, left, right, dbg) ==
    IF left >= right THEN {<<"Err", left>>}
    ELSE UNION {
        LET o == cmp_char(rs[mid + 1], c, dbg) IN
        CASE o = "Panic"   -> {<<"Panic", 0>>}
          [] o = "Less"    -> bisect(rs, c, mid + 1, right, dbg)
          [] o = "Greater" -> bisect(rs, c, left, mid, dbg)
          [] o = "Equal"   -> {<<"Ok", mid>>}
        : mid \in left .. (right - 1) }

search(rs, c, dbg) == bisect(rs, c, 0, Len(rs), dbg)

\* CharSet::contains: self.search(c).is_ok(); "panic" is cmp_char's assertion.
set_contains(rs, c, dbg) ==
    { IF sr[1] = "Panic" THEN "panic" ELSE IF sr[1] = "Ok" THEN "true" ELSE "false" :
        sr \in search(rs, c, dbg) }

---------------------------------------------------------------------------
(* Results of a call                                                       *)

Done(rs) == [ranges |-> rs, status |-> "ok"]

Fail(rs, why) == [ranges |-> rs, status |-> why]


---------------------------------------------------------------------------
(* CharSetBuf::insert                                                      *)

\* The body of `if let Err(idx) = self.search(c)`.
insert_at(rs, c, idx, dbg) ==
    IF idx = Len(rs) THEN Done(Append(rs, singleton(c)))
    ELSE
      LET above == rs[idx + 1]
          high  == above.high
      IN
      IF dbg /\ ~(above.low > c) THEN Fail(rs, "debug_assert insert")
      ELSE IF dbg /\ underflows(above.low, c) THEN Fail(rs, "overflow")
      ELSE
        LET rs1 == IF diff_eq_one(above.low, c)
                   THEN vec_set(rs, idx, [above EXCEPT !.low = c])
                   ELSE vec_insert(rs, idx, singleton(c))
        IN
        IF idx > 0
        THEN LET below == rs1[idx] IN
             IF dbg /\ underflows(c, below.high) THEN Fail(rs1, "overflow")
             ELSE IF diff_le_one(c, below.high)
                  THEN Done(vec_remove(vec_set(rs1, idx - 1, [below EXCEPT !.high = high]), idx))
                  ELSE Done(rs1)
        ELSE Done(rs1)

insert_found(rs, c, sr, dbg) ==
    CASE sr[1] = "Panic" -> Fail(rs, "debug_assert cmp_char")
      [] sr[1] = "Ok"    -> Done(rs)
      [] sr[1] = "Err"   -> insert_at(rs, c, sr[2], dbg)

insert(rs, c, dbg) == { insert_found(rs, c, sr, dbg) : sr \in search(rs, c, dbg) }

---------------------------------------------------------------------------
(* CharSetBuf::insert_range                                                *)

\* let (mut low_idx, mut low_char) = match self.search(r.low) ..
low_locate(rs, r, sr) ==
    IF sr[1] = "Ok" THEN <<sr[2], rs[sr[2] + 1].low>> ELSE <<sr[2], r.low>>

\* high_locate with `Ok(idx) => (idx, ..)`: the index is no longer exclusive.
high_locate_inclusive(rs, r, sr) ==
    IF sr[1] = "Ok" THEN <<sr[2], rs[sr[2] + 1].high>> ELSE <<sr[2], r.high>>

\* let (mut high_idx, mut high_char) = match self.search(r.high) ..
high_locate(rs, r, sr) ==
    IF sr[1] = "Ok" THEN <<sr[2] + 1, rs[sr[2] + 1].high>> ELSE <<sr[2], r.high>>

\* "extend left if collapse needed": may this range take in ranges[low_idx - 1]?
collapse_left(rs, low_idx, low_char) ==
    low_idx > 0 /\ diff_le_one(low_char, rs[low_idx].high)

\* "extend right if collapse needed": may this range take in ranges[high_idx]?
collapse_right(rs, high_idx, high_char) ==
    high_idx < Len(rs) /\ diff_le_one(rs[high_idx + 1].low, high_char)

\* The last statement: insert the new range, or widen the lowest replaced one.
insert_range_write(rs, low_idx, low_char, high_idx, high_char) ==
    IF low_idx = high_idx
    THEN Done(vec_insert(rs, low_idx, from_bounds(Included(low_char), Included(high_char))))
    ELSE IF ~drain_ok(rs, low_idx, high_idx) THEN Fail(rs, "index")
    ELSE Done(vec_set(vec_drain(rs, low_idx, high_idx), low_idx,
                      from_bounds(Included(low_char), Included(high_char))))

insert_range_found(rs, r, srl, srh, dbg) ==
    IF srl[1] = "Panic" THEN Fail(rs, "debug_assert cmp_char")
    ELSE
      LET l0 == low_locate(rs, r, srl) IN
      IF dbg /\ l0[1] > 0 /\ underflows(l0[2], rs[l0[1]].high) THEN Fail(rs, "overflow")
      ELSE
        LET cl       == collapse_left(rs, l0[1], l0[2])
            low_idx  == IF cl THEN l0[1] - 1 ELSE l0[1]
            low_char == IF cl THEN rs[low_idx + 1].low ELSE l0[2]
        IN
        IF srh[1] = "Panic" THEN Fail(rs, "debug_assert cmp_char")
        ELSE
          LET h0 == high_locate(rs, r, srh) IN
          IF dbg /\ h0[1] < Len(rs) /\ underflows(rs[h0[1] + 1].low, h0[2])
          THEN Fail(rs, "overflow")
          ELSE
            LET cr        == collapse_right(rs, h0[1], h0[2])
                high_char == IF cr THEN rs[h0[1] + 1].high ELSE h0[2]
                high_idx  == IF cr THEN h0[1] + 1 ELSE h0[1]
            IN insert_range_write(rs, low_idx, low_char, high_idx, high_char)

insert_range(rs, r, dbg) ==
    IF is_empty(r) THEN {Done(rs)}
    ELSE { insert_range_found(rs, r, srl, srh, dbg) :
               srl \in search(rs, r.low, dbg), srh \in search(rs, r.high, dbg) }

---------------------------------------------------------------------------
(* CharSetBuf::remove                                                      *)

\* The body of `if let Ok(idx) = self.search(c)`.
remove_at(rs, c, idx) ==
    LET this == rs[idx + 1] IN
    IF iter_len(this) = 1 THEN vec_remove(rs, idx)
    ELSE IF this.low = c
         THEN vec_set(rs, idx, from_bounds(Excluded(c), Included(this.high)))
    ELSE IF this.high = c
         THEN vec_set(rs, idx, from_bounds(Included(this.low), Included(c)))
    ELSE vec_insert(vec_set(rs, idx, from_bounds(Excluded(c), Included(this.high))),
                    idx, from_bounds(Included(this.low), Excluded(c)))

remove_found(rs, c, sr) ==
    CASE sr[1] = "Panic" -> Fail(rs, "debug_assert cmp_char")
      [] sr[1] = "Ok"    -> Done(remove_at(rs, c, sr[2]))
      [] sr[1] = "Err"   -> Done(rs)

remove(rs, c, dbg) == { remove_found(rs, c, sr) : sr \in search(rs, c, dbg) }

---------------------------------------------------------------------------
(* CharSetBuf::remove_range                                                *)

\* `low == high`: the two debug assertions !self.contains(..), each a search.
remove_range_none(rs, r, dbg) ==
    IF ~dbg THEN {Done(rs)}
    ELSE { IF s1[1] = "Panic" THEN Fail(rs, "debug_assert cmp_char")
           ELSE IF s1[1] = "Ok" THEN Fail(rs, "debug_assert remove_range")
           ELSE IF s2[1] = "Panic" THEN Fail(rs, "debug_assert cmp_char")
           ELSE IF s2[1] = "Ok" THEN Fail(rs, "debug_assert remove_range")
           ELSE Done(rs)
           : s1 \in search(rs, r.low, dbg), s2 \in search(rs, r.high, dbg) }

\* remove_range_one whose cuts keep the end of r: Bound::Included(r.low) and
\* Bound::Included(r.high) where the code excludes them.
remove_range_one_keeps_ends(rs, r, low, high, dbg) ==
    IF low >= Len(rs) THEN Fail(rs, "index")
    ELSE
      LET split == rs[low + 1] IN
      IF split.low = r.low /\ split.high = r.high THEN Done(vec_remove(rs, low))
      ELSE IF split.low = r.low THEN
          Done(vec_set(rs, low, from_bounds(Included(r.high), Included(split.high))))
      ELSE IF split.high = r.high THEN
          Done(vec_set(rs, low, from_bounds(Included(split.low), Included(r.low))))
      ELSE
          Done(vec_insert(
                   vec_set(rs, low, from_bounds(Included(split.low), Included(r.low))),
                   high, from_bounds(Included(r.high), Included(split.high))))

\* `low + 1 == high`: "one range to split".
remove_range_one(rs, r, low, high, dbg) ==
    IF low >= Len(rs) THEN Fail(rs, "index")
    ELSE
      LET split == rs[low + 1] IN
      IF split.low = r.low /\ split.high = r.high THEN Done(vec_remove(rs, low))
      ELSE IF split.low = r.low THEN
          \* shrink to top
          IF dbg /\ ~(split.high > r.high) THEN Fail(rs, "debug_assert remove_range")
          ELSE Done(vec_set(rs, low, from_bounds(Excluded(r.high), Included(split.high))))
      ELSE IF split.high = r.high THEN
          \* shrink to bottom
          IF dbg /\ ~(r.low > split.low) THEN Fail(rs, "debug_assert remove_range")
          ELSE Done(vec_set(rs, low, from_bounds(Included(split.low), Excluded(r.low))))
      ELSE
          \* split
          IF dbg /\ ~(split.high > r.high /\ r.low > split.low)
          THEN Fail(rs, "debug_assert remove_range")
          ELSE Done(vec_insert(
                   vec_set(rs, low, from_bounds(Included(split.low), Excluded(r.low))),
                   high, from_bounds(Excluded(r.high), Included(split.high))))

\* The last branch: cut ranges[low] and ranges[high - 1], drain what lies between.
remove_range_many(rs, r, low, high, dbg) ==
    IF low >= Len(rs) THEN Fail(rs, "index")
    ELSE
      LET left == rs[low + 1]
          rs1  == vec_set(rs, low, from_bounds(Included(left.low), Excluded(r.low)))
      IN
      IF high = 0 THEN Fail(rs1, IF dbg THEN "overflow" ELSE "index")  \* usize `high - 1`
      ELSE
        LET hi == high - 1 IN
        IF hi >= Len(rs1) THEN Fail(rs1, "index")
        ELSE
          LET right == rs1[hi + 1]
              rs2   == vec_set(rs1, hi, from_bounds(Excluded(r.high), Included(right.high)))
          IN  IF ~drain_ok(rs2, low, hi) THEN Fail(rs2, "index")
              ELSE Done(vec_drain(rs2, low, hi))

remove_range_found(rs, r, srl, srh, dbg) ==
    IF srl[1] = "Panic" \/ srh[1] = "Panic" THEN {Fail(rs, "debug_assert cmp_char")}
    ELSE
      LET low  == srl[2]
          high == IF srh[1] = "Ok" THEN srh[2] + 1 ELSE srh[2]
      IN  IF low = high THEN remove_range_none(rs, r, dbg)
          ELSE IF low + 1 = high THEN {remove_range_one(rs, r, low, high, dbg)}
          ELSE {remove_range_many(rs, r, low, high, dbg)}

remove_range(rs, r, dbg) ==
    IF is_empty(r) THEN {Done(rs)}
    ELSE UNION { remove_range_found(rs, r, srl, srh, dbg) :
                     srl \in search(rs, r.low, dbg), srh \in search(rs, r.high, dbg) }

---------------------------------------------------------------------------
(* The set as a state machine: one action per public method.               *)

Dbg == build = "debug"

\* The iterator is not part of a run over a set.
IterIdle ==
    /\ it = empty /\ src = empty /\ outF = <<>> /\ outB = <<>> /\ ended = "no"
    /\ nones = 0

\* No call has been checked by its return value.
CallIdle == fn = "none" /\ inp = <<>> /\ ret = "none"

\* There is no second set.
PairIdle == ranges2 = <<>> /\ status2 = "ok" /\ nops2 = 0

\* No trie is generated.
TrieIdle == pred = {} /\ trie = [status |-> "none"]

\* Only the set is part of the run.
SetOnly == IterIdle /\ CallIdle /\ PairIdle /\ TrieIdle

\* CharSetBuf::new()
Init ==
    /\ build \in Builds
    /\ ranges = <<>> /\ s0 = <<>> /\ prev = <<>>
    /\ op = "new" /\ arg = empty /\ status = "ok" /\ nops = 0
    /\ SetOnly

\* A call `name(a)` whose possible results are `outs`; a panic ends the run.
Call(name, a, outs) ==
    /\ status = "ok"
    /\ \E o \in outs : ranges' = o.ranges /\ status' = o.status
    /\ prev' = ranges /\ op' = name /\ arg' = a /\ nops' = nops + 1
    /\ UNCHANGED <<build, s0, itervars, callvars, pairvars, trievars>>

Insert(limit) ==
    /\ nops < limit
    /\ \E c \in SampleChars : Call("insert", singleton(c), insert(ranges, c, Dbg))

InsertRange(limit) ==
    /\ nops < limit
    /\ \E r \in SampleRanges : Call("insert_range", r, insert_range(ranges, r, Dbg))

Remove(limit) ==
    /\ nops < limit
    /\ \E c \in SampleChars : Call("remove", singleton(c), remove(ranges, c, Dbg))

RemoveRange(limit) ==
    /\ nops < limit
    /\ \E r \in SampleRanges : Call("remove_range", r, remove_range(ranges, r, Dbg))

\* Any sequence of at most MaxOps calls on CharSetBuf::new().
Next == Insert(MaxOps) \/ InsertRange(MaxOps) \/ Remove(MaxOps) \/ RemoveRange(MaxOps)

Spec == Init /\ [][Next]_vars

---------------------------------------------------------------------------
(* CharSetBuf::from(range), then at most MaxOpsFrom calls.                 *)

\* impl<R: Into<CharRange>> From<R> for CharSetBuf
from_range(r) == <<r>>

InitFrom ==
    /\ build \in Builds
    /\ \E r \in SampleRanges :
          /\ ranges = from_range(r) /\ s0 = from_range(r) /\ arg = r
    /\ prev = <<>> /\ op = "from" /\ status = "ok" /\ nops = 0
    /\ SetOnly

NextFrom ==
    \/ Insert(MaxOpsFrom) \/ InsertRange(MaxOpsFrom)
    \/ Remove(MaxOpsFrom) \/ RemoveRange(MaxOpsFrom)

SpecFrom == InitFrom /\ [][NextFrom]_vars

---------------------------------------------------------------------------
(* Canonical form, and one call (or insert_range(r) and a second call with *)
(* the same r) on any canonical set.                                       *)

\* The next scalar value after c (c < char::MAX), skipping the surrogates.
Succ(c) == IF c = BEFORE_SURROGATE THEN AFTER_SURROGATE ELSE c + 1

\* Non-empty ranges, strictly sorted, at least one scalar value between two
\* consecutive ones.
Canonical(rs) ==
    /\ \A i \in 1 .. Len(rs) : rs[i].low <= rs[i].high
    /\ \A i \in 1 .. Len(rs) - 1 : Succ(rs[i].high) < rs[i + 1].low

\* The canonical lists of at most n ranges with sampled bounds.  Each is what
\* new() followed by insert_range of its ranges in ascending order leaves.
RECURSIVE CanonicalLists(_)
CanonicalLists(n) ==
    IF n = 0 THEN {<<>>}
    ELSE LET shorter == CanonicalLists(n - 1) IN
         shorter \cup
           { Append(rs, r) :
               <<rs, r>> \in { x \in shorter \X SampleRanges :
                                 /\ Len(x[1]) = n - 1
                                 /\ Canonical(Append(x[1], x[2])) } }

InitCanon ==
    /\ build \in Builds
    /\ ranges \in CanonicalLists(MaxRanges)
    /\ s0 = ranges /\ prev = ranges
    /\ op = "new" /\ arg = empty /\ status = "ok" /\ nops = 0
    /\ SetOnly

\* A call `name(c)` that reads the set; `answers` holds <<value, returned>>
\* for each value it can end with, `returned` being FALSE when the value
\* stands for cmp_char's assertion, which ends the run.
Query(name, c, answers) ==
    /\ status = "ok"
    /\ \E a \in answers :
          /\ ret' = a[1]
          /\ status' = IF a[2] THEN "ok" ELSE "debug_assert cmp_char"
    /\ prev' = ranges /\ op' = name /\ arg' = singleton(c) /\ nops' = nops + 1
    /\ UNCHANGED <<build, ranges, s0, fn, inp, itervars, pairvars, trievars>>

\* s.search(c)
Search(limit) ==
    /\ nops < limit
    /\ \E c \in ProbeChars : Query("search", c, { <<sr, sr[1] # "Panic">> : sr \in search(ranges, c, Dbg) })

\* s.contains(c)
Contains(limit) ==
    /\ nops < limit
    /\ \E c \in ProbeChars : Query("contains", c,
                                { <<a, a # "panic">> : a \in set_contains(ranges, c, Dbg) })

\* s.insert_range(r); s.insert_range(r)
InsertRangeAgain ==
    /\ nops = 1 /\ op = "insert_range"
    /\ Call("insert_range;insert_range", arg, insert_range(ranges, arg, Dbg))

\* s.insert_range(r); s.remove_range(r)
InsertRangeThenRemove ==
    /\ nops = 1 /\ op = "insert_range"
    /\ Call("insert_range;remove_range", arg, remove_range(ranges, arg, Dbg))

NextCanon ==
    \/ Insert(1) \/ InsertRange(1) \/ Remove(1) \/ RemoveRange(1)
    \/ InsertRangeAgain \/ InsertRangeThenRemove
    \/ Search(1) \/ Contains(1)

SpecCanon == InitCanon /\ [][NextCanon]_vars

---------------------------------------------------------------------------
(* Membership                                                              *)

\* c is a member of one of the ranges of rs.
Member(rs, c) == \E i \in 1 .. Len(rs) : contains(rs[i], c)

\* contains(c) answers `want` for every probe.
Answers(rs, c, want) ==
    set_contains(rs, c, Dbg) = {IF want THEN "true" ELSE "false"}

\* r and p share a scalar value.
Overlap(p, r) ==
    /\ ~is_empty(p) /\ ~is_empty(r)
    /\ p.low <= r.high /\ r.low <= p.high

\* No scalar value lies strictly between the non-empty ranges p and r (they
\* overlap, or one starts at the successor of the other's high).
Touch(p, r) ==
    /\ ~is_empty(p) /\ ~is_empty(r)
    /\ (p.high >= r.low \/ Succ(p.high) = r.low)
    /\ (r.high >= p.low \/ Succ(r.high) = p.low)

---------------------------------------------------------------------------
(* Claims                                                                  *)

\* C1: starting from new(), after any sequence of insert, insert_range,
\* remove and remove_range calls the stored range list is canonical (every
\* range non-empty, strictly sorted, a scalar value between neighbours).
C1_CanonicalAfterCalls == status = "ok" => Canonical(ranges)

\* C2: after remove_range(r) on a canonical set, contains(c) is true exactly
\* for the prior members that are not members of r, wherever r lies.
C2_RemoveRangeMembers ==
    (op = "remove_range" /\ Canonical(prev)) =>
        /\ status = "ok"
        /\ \A c \in ProbeChars :
              Answers(ranges, c, Member(prev, c) /\ ~contains(arg, c))

\* C3: after insert_range(r) with r non-empty on a canonical set, contains(c)
\* is true exactly for the prior members and the members of r, and every
\* stored range r overlapped or touched is covered, with r, by one range.
C3_InsertRangeUnion ==
    (op = "insert_range" /\ Canonical(prev) /\ ~is_empty(arg)) =>
        /\ status = "ok"
        /\ \A c \in ProbeChars :
              Answers(ranges, c, Member(prev, c) \/ contains(arg, c))
        /\ \A i \in 1 .. Len(prev) :
              Touch(prev[i], arg) =>
                 \E j \in 1 .. Len(ranges) :
                    /\ ranges[j].low <= prev[i].low /\ ranges[j].low <= arg.low
                    /\ ranges[j].high >= prev[i].high /\ ranges[j].high >= arg.high

\* C4: insert(c) on a canonical set leaves exactly the range list that
\* insert_range(singleton(c)) leaves on an equal set.
C4_InsertAsInsertRange ==
    (op = "insert" /\ Canonical(prev)) =>
        insert_range(prev, arg, Dbg) = {[ranges |-> ranges, status |-> status]}

\* C5: after remove(c) on a canonical set, c is not contained, every other
\* prior member still is, and a set that did not contain c is unchanged.
C5_RemoveChar ==
    (op = "remove" /\ Canonical(prev)) =>
        /\ status = "ok"
        /\ \A d \in ProbeChars :
              Answers(ranges, d, Member(prev, d) /\ d # arg.low)
        /\ (~Member(prev, arg.low) => ranges = prev)

\* C6: no call on a set reached from new() by insert, insert_range, remove
\* and remove_range panics (debug assertion, index out of bounds, overflow).
C6_NoPanic == status = "ok"

\* C7: on a canonical set, a second insert_range(r) leaves the range list
\* exactly as the first call left it.
C7_InsertRangeIdempotent ==
    op = "insert_range;insert_range" => (status = "ok" /\ ranges = prev)

\* C7's case: r took in at least two stored ranges, and the call was repeated.
C7_Witness ==
    /\ op = "insert_range;insert_range" /\ status = "ok"
    /\ ~is_empty(arg) /\ Len(s0) >= 2 /\ Len(prev) < Len(s0)
    /\ ranges = prev

\* C8: on a canonical set, insert_range(r) then remove_range(r) gives back
\* the prior range list if r shares no scalar value with the prior set, and
\* a different list if it shares one.
C8_InsertThenRemove ==
    op = "insert_range;remove_range" =>
        /\ status = "ok"
        /\ (ranges = s0) <=> (\A i \in 1 .. Len(s0) : ~Overlap(s0[i], arg))

\* C8's case: r lay between two stored ranges and touched both, so the insert
\* fused them, and the remove split them again.
C8_Witness ==
    /\ op = "insert_range;remove_range" /\ status = "ok"
    /\ ~is_empty(arg) /\ \A i \in 1 .. Len(s0) : ~Overlap(s0[i], arg)
    /\ Len(prev) < Len(s0)
    /\ ranges = s0

\* C9: from(r) is canonical for every r; for an empty r it holds no range.
C9_FromCanonical ==
    op = "from" => (Canonical(ranges) /\ (is_empty(arg) => ranges = <<>>))

---------------------------------------------------------------------------
(* range::Iter as a state machine                                          *)

\* Iter::step_forward without the surrogate test: every low moves to low + 1.
step_forward_dense(i) ==
    IF i.low = CHAR_MAX THEN [i EXCEPT !.high = 0]
    ELSE [i EXCEPT !.low = i.low + 1]

\* Iter::step_forward
step_forward(i) ==
    IF i.low = CHAR_MAX THEN [i EXCEPT !.high = 0]
    ELSE [i EXCEPT !.low = IF i.low = BEFORE_SURROGATE THEN AFTER_SURROGATE
                           ELSE i.low + 1]

\* Iter::step_backward without the surrogate test: every high moves to high - 1.
step_backward_dense(i) ==
    IF i.high = 0 THEN [i EXCEPT !.low = CHAR_MAX]
    ELSE [i EXCEPT !.high = i.high - 1]

\* Iter::step_backward
step_backward(i) ==
    IF i.high = 0 THEN [i EXCEPT !.low = CHAR_MAX]
    ELSE [i EXCEPT !.high = IF i.high = AFTER_SURROGATE THEN BEFORE_SURROGATE
                            ELSE i.high - 1]

\* impl IntoIterator for CharRange
into_iter(r) == [low |-> r.low, high |-> r.high]

\* The chars a range to iterate starts or ends at.
IterChars ==
    (0 .. LowSpan)
        \cup ((BEFORE_SURROGATE - 2) .. BEFORE_SURROGATE)
        \cup (AFTER_SURROGATE .. (AFTER_SURROGATE + 2))
        \cup ((CHAR_MAX - 2) .. CHAR_MAX)

\* The number of scalar values c with r.low <= c <= r.high.
ScalarCount(r) ==
    IF r.low > r.high THEN 0
    ELSE (r.high - r.low + 1)
           - (IF r.low < 55296 /\ r.high > 57343 THEN 2048 ELSE 0)

\* Every range over IterChars, empty or not, with at most MaxIter members.
IterRanges == { r \in [low : IterChars, high : IterChars] : ScalarCount(r) <= MaxIter }

SetIdle ==
    /\ build = "release" /\ ranges = <<>> /\ s0 = <<>> /\ prev = <<>>
    /\ op = "new" /\ arg = empty /\ status = "ok" /\ nops = 0

\* r.iter()
InitIter ==
    /\ src \in IterRanges
    /\ it = into_iter(src)
    /\ outF = <<>> /\ outB = <<>> /\ ended = "no" /\ nones = 0
    /\ SetIdle /\ CallIdle /\ PairIdle /\ TrieIdle

\* A next() that starts over at the range's low once it has returned None.
IterNextRestarting ==
    /\ nones < MaxNones
    /\ IF is_empty(it)
       THEN /\ ended' = "next" /\ nones' = nones + 1
            /\ it' = into_iter(src)
            /\ UNCHANGED outF
       ELSE /\ outF' = Append(outF, it.low)
            /\ it' = step_forward(it)
            /\ ended' = "no"
            /\ UNCHANGED nones
    /\ UNCHANGED <<src, outB, setvars, callvars, pairvars, trievars>>

\* Iterator::next; at most MaxNones calls of a run return None.
IterNext ==
    /\ nones < MaxNones
    /\ IF is_empty(it)
       THEN /\ ended' = "next" /\ nones' = nones + 1
            /\ UNCHANGED <<it, outF>>
       ELSE /\ outF' = Append(outF, it.low)
            /\ it' = step_forward(it)
            /\ ended' = "no"
            /\ UNCHANGED nones
    /\ UNCHANGED <<src, outB, setvars, callvars, pairvars, trievars>>

\* A next_back() that steps before it reads high.
IterNextBackStepFirst ==
    /\ nones < MaxNones
    /\ IF is_empty(it)
       THEN /\ ended' = "next_back" /\ nones' = nones + 1
            /\ UNCHANGED <<it, outB>>
       ELSE /\ outB' = Append(outB, step_backward(it).high)
            /\ it' = step_backward(it)
            /\ ended' = "no"
            /\ UNCHANGED nones
    /\ UNCHANGED <<src, outF, setvars, callvars, pairvars, trievars>>

\* DoubleEndedIterator::next_back; at most MaxNones calls of a run return None.
IterNextBack ==
    /\ nones < MaxNones
    /\ IF is_empty(it)
       THEN /\ ended' = "next_back" /\ nones' = nones + 1
            /\ UNCHANGED <<it, outB>>
       ELSE /\ outB' = Append(outB, it.high)
            /\ it' = step_backward(it)
            /\ ended' = "no"
            /\ UNCHANGED nones
    /\ UNCHANGED <<src, outF, setvars, callvars, pairvars, trievars>>

NextIter == IterNext \/ IterNextBack

SpecIter == InitIter /\ [][NextIter]_vars

\* The scalar values of r: r.low .. r.high without the surrogates.
Scalars(r) == { c \in r.low .. r.high : c < 55296 \/ c > 57343 }

\* The elements of a finite set of numbers in ascending order.
RECURSIVE Ascending(_)
Ascending(S) ==
    IF S = {} THEN <<>>
    ELSE LET m == CHOOSE x \in S : \A y \in S : x <= y
         IN  <<m>> \o Ascending(S \ {m})

IsPrefix(a, b) == Len(a) <= Len(b) /\ SubSeq(b, 1, Len(a)) = a

\* C10: when only next() is called, the values it has returned are always
\* the first ones of the ascending list of the range's scalar values (no
\* surrogate among them), and once it returns None they are that whole list
\* (nothing for an empty range).
C10_NextYieldsAscending ==
    outB = <<>> =>
        LET all == Ascending(Scalars(src)) IN
        /\ IsPrefix(outF, all)
        /\ (ended = "next" => outF = all)

\* C10's case: a range over both sides of the surrogate hole, run to None.
C10_Witness ==
    /\ ended = "next" /\ outB = <<>>
    /\ src.low < BEFORE_SURROGATE /\ src.high > AFTER_SURROGATE
    /\ Len(outF) = ScalarCount(src)

\* The sequence s back to front.
Reverse(s) == [k \in 1 .. Len(s) |-> s[Len(s) + 1 - k]]

\* C11: when only next_back() is called, the values it has returned are
\* always the first ones of the descending list of the range's scalar values
\* (the one before U+E000 is U+D7FF), and once it returns None they are the
\* whole list: the reverse of what next() alone yields.
C11_NextBackYieldsReverse ==
    outF = <<>> =>
        LET all == Reverse(Ascending(Scalars(src))) IN
        /\ IsPrefix(outB, all)
        /\ (ended = "next_back" => outB = all)

\* C11's case: a range over both sides of the surrogate hole, run backward to
\* None.
C11_Witness ==
    /\ ended = "next_back" /\ outF = <<>>
    /\ src.low < BEFORE_SURROGATE /\ src.high > AFTER_SURROGATE
    /\ Len(outB) = ScalarCount(src)

\* The values the iterator has yielded so far, from either end.
Yielded == { outF[k] : k \in 1 .. Len(outF) } \cup { outB[k] : k \in 1 .. Len(outB) }

\* The scalar values membership is probed on: the ends of the iterated ranges
\* and the scalar values next to them.
IterProbes ==
    IterChars \cup {LowSpan + 1, BEFORE_SURROGATE - 3, AFTER_SURROGATE + 3, CHAR_MAX - 3}

\* C12: every value the iterator of r yields is one r.contains() holds of,
\* and once the iterator has returned None the values it yielded are exactly
\* the chars r.contains() holds of; a range with low > high contains none
\* and yields none.
C12_ContainsIffYielded ==
    /\ \A c \in Yielded : contains(src, c)
    /\ nones > 0 => \A c \in IterProbes : contains(src, c) <=> c \in Yielded
    /\ is_empty(src) => Yielded = {} /\ \A c \in IterProbes : ~contains(src, c)

\* C12's case: a range over both sides of the surrogate hole, iterated to None.
C12_Witness ==
    /\ nones > 0 /\ ~is_empty(src)
    /\ contains(src, BEFORE_SURROGATE) /\ contains(src, AFTER_SURROGATE)
    /\ Cardinality(Yielded) = ScalarCount(src)

\* The number of values next() alone still yields from i.
RECURSIVE Drain(_)
Drain(i) == IF is_empty(i) THEN 0 ELSE 1 + Drain(step_forward(i))

\* The number of values next_back() alone still yields from i.
RECURSIVE DrainBack(_)
DrainBack(i) == IF is_empty(i) THEN 0 ELSE 1 + DrainBack(step_backward(i))

C14_Fused == nones > 0 => (ended # "no" /\ is_empty(it))

\* C14's case: next() yielded U+10FFFF and collapsed the iterator to high =
\* U+0000; a call returned None, and then next_back() returned None.
C14_Witness ==
    /\ nones >= 2 /\ ended = "next_back"
    /\ outF # <<>> /\ outF[Len(outF)] = CHAR_MAX
    /\ it.low = CHAR_MAX /\ it.high = 0

---------------------------------------------------------------------------
(* The functions of CharRange: one call on sampled inputs.                 *)

\* impl PartialEq for CharRange
range_eq(a, b) ==
    (is_empty(a) /\ is_empty(b)) \/ (a.low = b.low /\ a.high = b.high)

\* impl From<CharRange> for RangeInclusive<char>: low..=high
to_inclusive(r) == <<r.low, r.high>>

\* impl Hash for CharRange with no test for emptiness: low..=high is hashed.
range_hash_raw(r) == to_inclusive(r)

\* impl Hash for CharRange: the RangeInclusive that is fed to the hasher.
range_hash(r) == IF is_empty(r) THEN to_inclusive(empty) ELSE to_inclusive(r)

\* A split_range that does not split: low..=high and an empty right range.
split_range_whole(r) ==
    <<[start |-> r.low, end |-> r.high], [start |-> AFTER_SURROGATE, end |-> 0]>>

\* CharRange::split_range: the RangeInclusive<u32> pair (left, right), each
\* [start |-> .., end |-> ..].
split_range(r) ==
    LET left_low   == IF r.low <= BEFORE_SURROGATE THEN r.low ELSE CHAR_MAX
        left_high  == IF r.high <= BEFORE_SURROGATE THEN r.high ELSE BEFORE_SURROGATE
        right_low  == IF r.low >= AFTER_SURROGATE THEN r.low ELSE AFTER_SURROGATE
        right_high == IF r.high >= AFTER_SURROGATE THEN r.high ELSE 0
    IN  <<[start |-> left_low, end |-> left_high],
          [start |-> right_low, end |-> right_high]>>

\* Every range over the chars ranges are iterated from, empty or not.
SplitRanges == [low : IterChars, high : IterChars]

\* The start and end bounds a range is made from.
Bounds ==
    { Included(c) : c \in IterChars } \cup { Excluded(c) : c \in IterChars } \cup {Unbounded}

InitRange == SetIdle /\ IterIdle /\ CallIdle /\ PairIdle /\ TrieIdle

\* CharRange::from((sb, eb))
RangeFrom ==
    /\ fn = "none"
    /\ \E sb \in Bounds, eb \in Bounds :
          /\ fn' = "from" /\ inp' = <<sb, eb>>
          /\ ret' = from_bounds(sb, eb)
    /\ UNCHANGED <<setvars, itervars, pairvars, trievars>>

\* a == a, a == b, b == a, b == c, a == c
RangeEq ==
    /\ fn = "none"
    /\ \E a \in SampleRanges, b \in SampleRanges, c \in SampleRanges :
          /\ fn' = "eq" /\ inp' = <<a, b, c>>
          /\ ret' = [aa |-> range_eq(a, a), ab |-> range_eq(a, b),
                     ba |-> range_eq(b, a), bc |-> range_eq(b, c),
                     ac |-> range_eq(a, c)]
    /\ UNCHANGED <<setvars, itervars, pairvars, trievars>>

\* a.hash(state); b.hash(state)
RangeHash ==
    /\ fn = "none"
    /\ \E a \in SampleRanges, b \in SampleRanges :
          /\ fn' = "hash" /\ inp' = <<a, b>>
          /\ ret' = <<range_hash(a), range_hash(b)>>
    /\ UNCHANGED <<setvars, itervars, pairvars, trievars>>

\* r.split_range()
RangeSplit ==
    /\ fn = "none"
    /\ \E r \in SplitRanges :
          /\ fn' = "split_range" /\ inp' = r
          /\ ret' = split_range(r)
    /\ UNCHANGED <<setvars, itervars, pairvars, trievars>>

NextRange == RangeFrom \/ RangeEq \/ RangeHash \/ RangeSplit

SpecRange == InitRange /\ [][NextRange]_vars

\* The char c satisfies the start bound sb.
AfterStart(sb, c) ==
    CASE sb[1] = "Included"  -> sb[2] <= c
      [] sb[1] = "Excluded"  -> sb[2] < c
      [] sb[1] = "Unbounded" -> TRUE

\* The char c satisfies the end bound eb.
BeforeEnd(eb, c) ==
    CASE eb[1] = "Included"  -> c <= eb[2]
      [] eb[1] = "Excluded"  -> c < eb[2]
      [] eb[1] = "Unbounded" -> TRUE

C16_EqAndHash ==
    /\ fn = "eq" =>
          LET a == inp[1]
              b == inp[2]
          IN  /\ ret.ab <=> \/ (a.low > a.high /\ b.low > b.high)
                            \/ (a.low = b.low /\ a.high = b.high)
              /\ ret.aa
              /\ ret.ab <=> ret.ba
              /\ (ret.ab /\ ret.bc) => ret.ac
    /\ fn = "hash" =>
          /\ range_eq(inp[1], inp[2]) => ret[1] = ret[2]
          /\ inp[1].low > inp[1].high => ret[1] = <<CHAR_MAX, 0>>

\* C16's case: two different empty ranges, neither the canonical one, hashed.
C16_Witness ==
    /\ fn = "hash"
    /\ inp[1] # inp[2] /\ inp[1] # empty /\ inp[2] # empty
    /\ is_empty(inp[1]) /\ is_empty(inp[2])
    /\ ret[1] = ret[2]

---------------------------------------------------------------------------
(* Searching a canonical set                                               *)

\* C17: on a canonical list, search(c) returns Ok(i) for the one i whose
\* ranges[i] contains c when there is one, and otherwise Err(i) with i the
\* number of stored ranges whose high is below c; contains(c) returns true
\* exactly when a stored range contains c; neither panics.
C17_SearchFinds ==
    /\ op = "search" =>
          LET c == arg.low IN
          /\ status = "ok"
          /\ ret[1] \in {"Ok", "Err"}
          /\ \A i \in 0 .. Len(ranges) - 1 :
                contains(ranges[i + 1], c) <=> ret = <<"Ok", i>>
          /\ ret[1] = "Err" =>
                ret[2] = Cardinality({ i \in 1 .. Len(ranges) : ranges[i].high < c })
    /\ op = "contains" =>
          /\ status = "ok"
          /\ ret \in {"true", "false"}
          /\ ret = "true" <=> Member(ranges, arg.low)

\* C17's case: a char in the gap between the second and the third range of
\* a set is searched for.
C17_Witness ==
    /\ op = "search" /\ Len(ranges) = MaxRanges /\ MaxRanges >= 3
    /\ ret = <<"Err", 2>>
    /\ ranges[2].high < arg.low /\ arg.low < ranges[3].low

---------------------------------------------------------------------------
(* Two sets, each built from new() by at most MaxOpsPair calls.            *)

\* #[derive(PartialEq)] for CharSetBuf: Vec equality, element by element with
\* CharRange's ==.
set_eq(a, b) ==
    /\ Len(a) = Len(b)
    /\ \A i \in 1 .. Len(a) : range_eq(a[i], b[i])

\* CharSetBuf::new() twice
InitPair == Init

\* The range list of the first or of the second set.
PairList(first) == IF first THEN ranges ELSE ranges2

\* A call on the first or on the second set whose possible results are `outs`;
\* a panic ends the calls on that set.
PairCall(first, outs) ==
    /\ IF first
       THEN /\ status = "ok" /\ nops < MaxOpsPair
            /\ \E o \in outs : ranges' = o.ranges /\ status' = o.status
            /\ nops' = nops + 1
            /\ UNCHANGED pairvars
       ELSE /\ status2 = "ok" /\ nops2 < MaxOpsPair
            /\ \E o \in outs : ranges2' = o.ranges /\ status2' = o.status
            /\ nops2' = nops2 + 1
            /\ UNCHANGED <<ranges, status, nops>>
    /\ UNCHANGED <<build, s0, prev, op, arg, itervars, callvars, trievars>>

PairInsert ==
    \E first \in BOOLEAN, c \in SampleChars :
        PairCall(first, insert(PairList(first), c, Dbg))

PairInsertRange ==
    \E first \in BOOLEAN, r \in SampleRanges :
        PairCall(first, insert_range(PairList(first), r, Dbg))

PairRemove ==
    \E first \in BOOLEAN, c \in SampleChars :
        PairCall(first, remove(PairList(first), c, Dbg))

PairRemoveRange ==
    \E first \in BOOLEAN, r \in SampleRanges :
        PairCall(first, remove_range(PairList(first), r, Dbg))

NextPair == PairInsert \/ PairInsertRange \/ PairRemove \/ PairRemoveRange

SpecPair == InitPair /\ [][NextPair]_vars

\* The two lists hold the same chars.
SameChars(a, b) == \A c \in ProbeChars : Member(a, c) <=> Member(b, c)

\* C18: two sets built from new() by insert, insert_range, remove and
\* remove_range are == exactly when they hold the same chars.
C18_EqualIffSameChars ==
    (status = "ok" /\ status2 = "ok") =>
        (set_eq(ranges, ranges2) <=> SameChars(ranges, ranges2))

---------------------------------------------------------------------------
(* CharTrie.  The tables have the crate's layout with every size a bound:  *)
(* level1 covers the chars below TrieL1End [0x800], level2 those below      *)
(* TrieL2End [0x10000], level3 the rest below TrieEnd [0x110000]; shifts    *)
(* and masks by the sizes are divisions and remainders.  A leaf word is     *)
(* the set of its bits that are 1, bit b standing for the b-th char of the  *)
(* chunk (bitvec's LittleEndian order).  The surrogates are a whole number  *)
(* of level2 chunks [32 of them, from chunk 832]: here the last but one.    *)

TrieL1End == L1Words * LeafBits

TrieL2End == TrieL1End + L2Chunks * LeafBits

TrieEnd == TrieL2End + L3Blocks * BlockLen * LeafBits

TrieHoleLow == TrieL1End + (L2Chunks - 2) * LeafBits

\* char::try_from(cp) is an error: cp is a surrogate.
TrieSurrogate(cp) == TrieHoleLow <= cp /\ cp < TrieHoleLow + LeafBits

\* The chars of the trie's geometry.
TrieChars == { cp \in 0 .. (TrieEnd - 1) : ~TrieSurrogate(cp) }

\* The values a u64 can be tested against after `>> bit_index`.
Bits == 0 .. (LeafBits - 1)

\* CharTrie::contains that indexes level2 by the char itself, not by its
\* offset from the end of level1.
trie_contains_no_offset(t, c) ==
    LET bit_index == c % LeafBits IN
    IF c < TrieL1End
    THEN IF bit_index \in t.level1[(c \div LeafBits) + 1] THEN "true" ELSE "false"
    ELSE IF c < TrieL2End
    THEN IF c \div LeafBits >= Len(t.level2) THEN "panic"
         ELSE LET chunk_index == t.level2[(c \div LeafBits) + 1] IN
              IF bit_index \in t.leaves[chunk_index + 1] THEN "true" ELSE "false"
    ELSE LET c3 == c - TrieL2End
             chonk_index == t.level3_0[(c3 \div (LeafBits * BlockLen)) + 1]
             chonk == t.level3_1[chonk_index + 1]
             chunk_index == chonk[((c3 \div LeafBits) % BlockLen) + 1]
         IN  IF bit_index \in t.leaves[chunk_index + 1] THEN "true" ELSE "false"

\* CharTrie::contains; "panic" is an index out of bounds.  The branch for
\* c >= TrieEnd is unreachable for a char.
trie_contains(t, c) ==
    LET bit_index == c % LeafBits IN
    IF c < TrieL1End
    THEN LET chunk_index == c \div LeafBits IN
         IF chunk_index >= Len(t.level1) THEN "panic"
         ELSE IF bit_index \in t.level1[chunk_index + 1] THEN "true" ELSE "false"
    ELSE IF c < TrieL2End
    THEN LET c2 == c - TrieL1End IN
         IF c2 \div LeafBits >= Len(t.level2) THEN "panic"
         ELSE LET chunk_index == t.level2[(c2 \div LeafBits) + 1] IN
              IF chunk_index >= Len(t.leaves) THEN "panic"
              ELSE IF bit_index \in t.leaves[chunk_index + 1] THEN "true" ELSE "false"
    ELSE LET c3 == c - TrieL2End IN
         IF c3 \div (LeafBits * BlockLen) >= Len(t.level3_0) THEN "panic"
         ELSE LET chonk_index == t.level3_0[(c3 \div (LeafBits * BlockLen)) + 1] IN
              IF chonk_index >= Len(t.level3_1) THEN "panic"
              ELSE LET chonk == t.level3_1[chonk_index + 1]
                       chunk_index == chonk[((c3 \div LeafBits) % BlockLen) + 1]
                   IN  IF chunk_index >= Len(t.leaves) THEN "panic"
                       ELSE IF bit_index \in t.leaves[chunk_index + 1]
                            THEN "true" ELSE "false"

\* The greatest element of a sequence of numbers (iter().max().unwrap()).
seq_max(s) == CHOOSE m \in { s[k] : k \in 1 .. Len(s) } : \A k \in 1 .. Len(s) : s[k] <= m

\* The bytes of all blocks of level3.1 (iter().flat_map(|it| it.iter())).
flat(blocks) == { blocks[j][k] : j \in 1 .. Len(blocks), k \in 1 .. BlockLen }

\* CharTrie::assert_optimal: "ok", or the assertion that fails first.
assert_optimal(t) ==
    LET max_level2_leaf == seq_max(t.level2)
        max_level3_leaf == CHOOSE m \in flat(t.level3_1) : \A x \in flat(t.level3_1) : x <= m
        max_leaf_index  == IF max_level2_leaf >= max_level3_leaf
                           THEN max_level2_leaf ELSE max_level3_leaf
        max_level3_index == seq_max(t.level3_0)
        referenced == { t.level2[k] : k \in 1 .. Len(t.level2) } \cup flat(t.level3_1)
    IN  IF Len(t.level3_1) = 0 THEN "unwrap on None"
        ELSE IF Len(t.leaves) # max_leaf_index + 1 THEN "wrong number of leaves stored"
        ELSE IF Len(t.level3_1) # max_level3_index + 1
             THEN "wrong number of level three secondary nodes"
        ELSE IF \E i \in 0 .. max_leaf_index : i \notin referenced THEN "leaf not referenced"
        ELSE IF Len(t.leaves) # Cardinality({ t.leaves[k] : k \in 1 .. Len(t.leaves) })
             THEN "duplicate leaves present"
        ELSE "ok"

\* The word of the LeafBits values of the predicate from cp on, the
\* predicate being the chars in P; a surrogate counts as false
\* (char::try_from(cp).map(f).unwrap_or(false)).
chunk_at(P, cp) == { b \in Bits : ~TrieSurrogate(cp + b) /\ (cp + b) \in P }

\* An insert_full that compares x with the entry inserted last only.
insert_full_after_last(s, x) ==
    IF Len(s) > 0 /\ s[Len(s)] = x THEN <<Len(s) - 1, s>>
    ELSE <<Len(s), Append(s, x)>>

\* IndexSet::insert_full(x).0 and the set after it: the index of x, which is
\* appended when the set does not hold it.
insert_full(s, x) ==
    IF \E k \in 1 .. Len(s) : s[k] = x
    THEN <<(CHOOSE k \in 1 .. Len(s) : s[k] = x) - 1, s>>
    ELSE <<Len(s), Append(s, x)>>

\* A u8::try_from that takes one value more than a byte has.
fits_u8_one_more(i) == i <= IndexCap

\* u8::try_from(i) is Ok
fits_u8(i) == i < IndexCap

\* The loop body of level2 and of level3's inner loop, n times from cp on:
\* each chunk's word is inserted into `leaves` and its index pushed to
\* `out`; `ok` turns FALSE at the first index that is no u8.
RECURSIVE push_chunks(_, _, _, _)
push_chunks(P, cp, n, acc) ==
    IF n = 0 \/ ~acc.ok THEN acc
    ELSE LET ins == insert_full(acc.leaves, chunk_at(P, cp)) IN
         IF ~fits_u8(ins[1]) THEN [acc EXCEPT !.leaves = ins[2], !.ok = FALSE]
         ELSE push_chunks(P, cp + LeafBits, n - 1,
                          [leaves |-> ins[2], out |-> Append(acc.out, ins[1]), ok |-> TRUE])

\* new_with::level1
level1(P) == [w \in 1 .. L1Words |-> chunk_at(P, (w - 1) * LeafBits)]

\* new_with::level2
level2(P, leaves) ==
    push_chunks(P, TrieL1End, L2Chunks, [leaves |-> leaves, out |-> <<>>, ok |-> TRUE])

\* new_with::level3, from block j on; acc is [leaves, first, second, ok].
RECURSIVE level3_from(_, _, _)
level3_from(P, j, acc) ==
    IF j = L3Blocks \/ ~acc.ok THEN acc
    ELSE LET small == push_chunks(P, TrieL2End + j * BlockLen * LeafBits, BlockLen,
                                  [leaves |-> acc.leaves, out |-> <<>>, ok |-> TRUE])
             ins == insert_full(acc.second, small.out)
         IN  IF ~small.ok \/ ~fits_u8(ins[1])
             THEN [acc EXCEPT !.ok = FALSE]
             ELSE level3_from(P, j + 1,
                              [leaves |-> small.leaves, first |-> Append(acc.first, ins[1]),
                               second |-> ins[2], ok |-> TRUE])

level3(P, leaves) ==
    level3_from(P, 0, [leaves |-> leaves, first |-> <<>>, second |-> <<>>, ok |-> TRUE])

\* CharTrie::new_with(f) and from_raw of the tables it writes; f holds of the
\* chars in P.
new_with(P) ==
    LET l2 == level2(P, <<>>) IN
    IF ~l2.ok THEN [status |-> "TryFromIntError"]
    ELSE LET l3 == level3(P, l2.leaves) IN
         IF ~l3.ok THEN [status |-> "TryFromIntError"]
         ELSE [status |-> "ok", level1 |-> level1(P), level2 |-> l2.out,
               level3_0 |-> l3.first, level3_1 |-> l3.second, leaves |-> l3.leaves]

\* The predicates: the chars from a to b, empty for a > b, and at most one
\* more char.
TriePreds ==
    { { c \in TrieChars : a <= c /\ c <= b } \cup extra :
        a \in TrieChars, b \in TrieChars,
        extra \in {{}} \cup { {x} : x \in TrieChars } }

InitTrie ==
    /\ pred \in TriePreds
    /\ trie = [status |-> "none"]
    /\ SetIdle /\ IterIdle /\ CallIdle /\ PairIdle

\* let trie = CharTrie::new_with(f)
NewWith ==
    /\ trie.status = "none"
    /\ trie' = new_with(pred)
    /\ UNCHANGED <<pred, setvars, itervars, callvars, pairvars>>

\* trie.contains(c)
TrieContains ==
    /\ trie.status = "ok" /\ fn = "none"
    /\ \E c \in TrieChars :
          fn' = "contains" /\ inp' = c /\ ret' = trie_contains(trie, c)
    /\ UNCHANGED <<trievars, setvars, itervars, pairvars>>

\* trie.assert_optimal()
AssertOptimal ==
    /\ trie.status = "ok" /\ fn = "none"
    /\ fn' = "assert_optimal" /\ inp' = <<>> /\ ret' = assert_optimal(trie)
    /\ UNCHANGED <<trievars, setvars, itervars, pairvars>>

NextTrie == NewWith \/ TrieContains \/ AssertOptimal

SpecTrie == InitTrie /\ [][NextTrie]_vars

\* C19: when new_with succeeds, the trie made of the tables it writes answers
\* contains(c) as the predicate answers c, for every char c: below TrieL1End
\* by level1, below TrieL2End by level2 and the leaves, and above by level3
\* and the leaves.
C19_TrieRoundTrip ==
    /\ fn = "contains" => (ret = "true" <=> inp \in pred) /\ ret \in {"true", "false"}
    /\ trie.status = "ok" =>
          \A c \in TrieChars : trie_contains(trie, c) = IF c \in pred THEN "true" ELSE "false"

\* C19's case: the predicate holds of chars on all three paths, level3 has
\* two blocks, and a char of the second block is looked up.
C19_Witness ==
    /\ fn = "contains" /\ ret = "true"
    /\ inp >= TrieL2End + BlockLen * LeafBits
    /\ Len(trie.level3_1) >= 2
    /\ \E c \in pred : c < TrieL1End
    /\ \E c \in pred : TrieL1End <= c /\ c < TrieL2End

\* The leaf indices level2 and the blocks of level3.1 hold.
LeafRefs(t) == { t.level2[k] : k \in 1 .. Len(t.level2) } \cup flat(t.level3_1)

\* The entries of s are pairwise different.
Distinct(s) == \A j \in 1 .. Len(s), k \in 1 .. Len(s) : s[j] = s[k] => j = k

\* C20: when new_with succeeds, every leaf index in level2 and level3.1 is
\* below leaves.len() and every index in level3.0 is below level3.1.len();
\* leaves.len() is 1 plus the largest leaf index in use and each leaf is in
\* use; level3.1.len() is 1 plus the largest index in level3.0; no two
\* leaves are the same and no two blocks of level3.1 are the same;
\* assert_optimal passes.
C20_TrieOptimal ==
    /\ trie.status = "ok" =>
          /\ \A i \in LeafRefs(trie) : i < Len(trie.leaves)
          /\ \A k \in 1 .. Len(trie.level3_0) : trie.level3_0[k] < Len(trie.level3_1)
          /\ \E i \in LeafRefs(trie) : Len(trie.leaves) = 1 + i
          /\ \A i \in 0 .. Len(trie.leaves) - 1 : i \in LeafRefs(trie)
          /\ \E k \in 1 .. Len(trie.level3_0) : Len(trie.level3_1) = 1 + trie.level3_0[k]
          /\ Distinct(trie.leaves)
          /\ Distinct(trie.level3_1)
    /\ fn = "assert_optimal" => ret = "ok"

\* C20's case: as many leaves as an index byte can tell apart, one of them
\* used by level2 and by level3, and two blocks in level3.1.
C20_Witness ==
    /\ fn = "assert_optimal"
    /\ Len(trie.leaves) = IndexCap
    /\ Len(trie.level3_1) >= 2
    /\ \E k \in 1 .. Len(trie.level2) : trie.level2[k] \in flat(trie.level3_1)

\* The first chars of the chunks level2 and level3 index.
ChunkStarts == { TrieL1End + k * LeafBits : k \in 0 .. (L2Chunks + L3Blocks * BlockLen - 1) }

\* The different leaf words the predicate P needs.
NeededLeaves(P) == { chunk_at(P, cp) : cp \in ChunkStarts }

\* The different blocks of level3.1 the predicate P needs, each as the
\* sequence of its chunks' words.
NeededBlocks(P) ==
    { [k \in 1 .. BlockLen |->
          chunk_at(P, TrieL2End + (j * BlockLen + (k - 1)) * LeafBits)] :
        j \in 0 .. (L3Blocks - 1) }

\* C21: new_with returns Err, and no tables, exactly when the predicate needs
\* more different leaf words (level2's and level3's chunks together) or more
\* different level3.1 blocks than an index byte has values; otherwise it
\* returns Ok.
C21_ErrIffTooMany ==
    trie.status # "none" =>
        /\ trie.status \in {"ok", "TryFromIntError"}
        /\ trie.status = "TryFromIntError" <=>
              \/ Cardinality(NeededLeaves(pred)) > IndexCap
              \/ Cardinality(NeededBlocks(pred)) > IndexCap
        /\ trie.status = "TryFromIntError" => DOMAIN trie = {"status"}

\* C21's case: the predicate needs one leaf more than an index byte can tell
\* apart, and new_with has returned Err.
C21_Witness ==
    /\ trie.status = "TryFromIntError"
    /\ Cardinality(NeededLeaves(pred)) = IndexCap + 1

---------------------------------------------------------------------------
(* The two u32 ranges a CharRange is split into for parallel iteration     *)

\* The u32 value c is in the RangeInclusive<u32> x.
InU32(x, c) == x.start <= c /\ c <= x.end

\* The number of values of the RangeInclusive<u32> x.
LenU32(x) == IF x.start <= x.end THEN x.end - x.start + 1 ELSE 0

\* The u32 values probed: the probed chars, the ends and the inside of the
\* surrogates, and the value after char::MAX.
U32Probes == IterProbes \cup {55296, 55297, 57342, 57343, CHAR_MAX + 1}

\* C22: the two u32 ranges split_range returns for r hold between them
\* exactly the values r.iter() yields (the scalar values from r.low to
\* r.high, as many as r.len()), share no value and hold no surrogate; the
\* left one is empty when r has no member at or below U+D7FF and the right
\* one when r has no member at or above U+E000; both are empty for an
\* empty r.
C22_SplitRange ==
    fn = "split_range" =>
        LET r     == inp
            left  == ret[1]
            right == ret[2]
        IN  /\ \A c \in U32Probes :
                  (InU32(left, c) \/ InU32(right, c))
                      <=> (c \in Scalars(closed(c, c)) /\ contains(r, c))
            /\ \A c \in U32Probes : ~(InU32(left, c) /\ InU32(right, c))
            /\ LenU32(left) > 0 =>
                  left.start = r.low /\ left.end <= r.high /\ left.end <= BEFORE_SURROGATE
            /\ LenU32(right) > 0 =>
                  right.end = r.high /\ right.start >= r.low /\ right.start >= AFTER_SURROGATE
            /\ LenU32(left) + LenU32(right) = ScalarCount(r)
            /\ LenU32(left) + LenU32(right) = range_len(r)
            /\ (is_empty(r) \/ r.low > BEFORE_SURROGATE) => LenU32(left) = 0
            /\ (is_empty(r) \/ r.high < AFTER_SURROGATE) => LenU32(right) = 0

\* C22's case: the range U+D7FF..=U+E000 is split into its two chars.
C22_Witness ==
    /\ fn = "split_range"
    /\ inp = closed(BEFORE_SURROGATE, AFTER_SURROGATE)
    /\ ret = <<[start |-> BEFORE_SURROGATE, end |-> BEFORE_SURROGATE],
               [start |-> AFTER_SURROGATE, end |-> AFTER_SURROGATE]>>

---------------------------------------------------------------------------
(* Merging across the surrogate hole                                       *)

\* The last call was insert or insert_range on a canonical set, with a
\* non-empty argument that ends at U+D7FF while a stored range starts at
\* U+E000, or starts at U+E000 while a stored range ends at U+D7FF.
HugsHole ==
    /\ nops = 1 /\ op \in {"insert", "insert_range"} /\ ~is_empty(arg)
    /\ \/ arg.high = BEFORE_SURROGATE
          /\ \E i \in 1 .. Len(prev) : prev[i].low = AFTER_SURROGATE
       \/ arg.low = AFTER_SURROGATE
          /\ \E i \in 1 .. Len(prev) : prev[i].high = BEFORE_SURROGATE

\* C23: insert and insert_range take U+D7FF and U+E000 for adjacent: after
\* such a call one stored range holds both U+D7FF and U+E000, and the list
\* is canonical.
C23_MergeAcrossHole ==
    HugsHole =>
        /\ status = "ok"
        /\ \E i \in 1 .. Len(ranges) :
              ranges[i].low <= BEFORE_SURROGATE /\ ranges[i].high >= AFTER_SURROGATE
        /\ Canonical(ranges)

---------------------------------------------------------------------------
(* remove_range over two or more stored ranges                             *)

\* The scalar value before c (c > 0), skipping the surrogates.
Pred(c) == IF c = AFTER_SURROGATE THEN BEFORE_SURROGATE ELSE c - 1

\* The indices of the ranges of rs that share a scalar value with r.
Reached(rs, r) == { i \in 1 .. Len(rs) : Overlap(rs[i], r) }

\* The last call was remove_range(r) on a canonical set, r reaching into two
\* or more of its ranges.
RemovedAcross ==
    /\ nops = 1 /\ op = "remove_range"
    /\ Cardinality(Reached(prev, arg)) >= 2

\* C24: such a call leaves, of the first and the last range r reaches, what
\* lies below r.low and above r.high, deletes the ranges between them, and
\* deletes an end range of which nothing is left: the list holds no empty
\* range, is canonical, and holds exactly the chars held before that are
\* not in r.
C24_RemoveRangeAcross ==
    RemovedAcross =>
        LET first == CHOOSE i \in Reached(prev, arg) : \A j \in Reached(prev, arg) : i <= j
            last  == CHOOSE i \in Reached(prev, arg) : \A j \in Reached(prev, arg) : j <= i
            kept  == (IF prev[first].low < arg.low
                      THEN <<closed(prev[first].low, Pred(arg.low))>> ELSE <<>>)
                     \o (IF prev[last].high > arg.high
                         THEN <<closed(Succ(arg.high), prev[last].high)>> ELSE <<>>)
        IN  /\ status = "ok"
            /\ \A i \in 1 .. Len(ranges) : ~is_empty(ranges[i])
            /\ ranges = SubSeq(prev, 1, first - 1) \o kept \o SubSeq(prev, last + 1, Len(prev))
            /\ Canonical(ranges)
            /\ \A c \in ProbeChars :
                  Member(ranges, c) <=> (Member(prev, c) /\ ~contains(arg, c))

---------------------------------------------------------------------------
(* Calls that change nothing                                               *)

\* The last call was insert_range(r) or remove_range(r) with an empty r.
EmptyArg == op \in {"insert_range", "remove_range"} /\ is_empty(arg)

\* The last call was remove_range(r) with a non-empty r that lies in a gap
\* of the set (or below its first or above its last range): no stored range
\* shares a char with r.
InOneGap == op = "remove_range" /\ ~is_empty(arg) /\ Reached(prev, arg) = {}

\* C25: insert_range(r) and remove_range(r) with an empty r, and
\* remove_range(r) with r inside one gap, return normally and leave the
\* range list as it was.
C25_NothingToDo ==
    (EmptyArg \/ InOneGap) => (status = "ok" /\ ranges = prev)

---------------------------------------------------------------------------
(* Ord for CharSetBuf                                                      *)

\* impl PartialOrd for CharRange: lexicographic on (low, high); an empty
\* range does not compare.
range_partial_cmp(a, b) ==
    IF is_empty(a) \/ is_empty(b) THEN "None"
    ELSE IF a.low < b.low THEN "Less"
    ELSE IF a.low > b.low THEN "Greater"
    ELSE IF a.high < b.high THEN "Less"
    ELSE IF a.high > b.high THEN "Greater"
    ELSE "Equal"

\* #[derive(PartialOrd)] on CharSetBuf: the lexicographic partial_cmp of the
\* two Vec<CharRange>, which returns the first comparison that is not
\* Some(Equal) and otherwise compares the lengths.
RECURSIVE slice_partial_cmp(_, _, _)
slice_partial_cmp(a, b, i) ==
    IF i > Len(a) \/ i > Len(b)
    THEN IF Len(a) < Len(b) THEN "Less"
         ELSE IF Len(a) > Len(b) THEN "Greater" ELSE "Equal"
    ELSE LET o == range_partial_cmp(a[i], b[i])
         IN  IF o = "Equal" THEN slice_partial_cmp(a, b, i + 1) ELSE o

set_partial_cmp(a, b) == slice_partial_cmp(a, b, 1)

\* impl Ord for CharSetBuf: partial_cmp, or unreachable!() on None.
set_cmp(a, b) ==
    LET o == set_partial_cmp(a, b)
    IN  IF o = "None" THEN "unreachable" ELSE o

\* C26: Ord::cmp on two sets built from new() by insert, insert_range,
\* remove and remove_range never reaches unreachable!(): partial_cmp of the
\* two range lists is never None.
C26_CmpIsTotal ==
    (status = "ok" /\ status2 = "ok") => set_cmp(ranges, ranges2) # "unreachable"

---------------------------------------------------------------------------
(* The chars made with char::from_u32_unchecked                            *)

\* c is a Unicode scalar value.
IsScalar(c) == c \in 0 .. CHAR_MAX /\ ~(c \in (BEFORE_SURROGATE + 1) .. (AFTER_SURROGATE - 1))

\* C27: under every interleaving of next and next_back the iterator's low
\* and high and every value it has yielded are scalar values (at most
\* 0x10FFFF, no surrogate), and so are the low and high of CharRange::from
\* for every pair of bounds: each value step_forward, step_backward and
\* from pass to char::from_u32_unchecked is a valid char.
C27_ValidChars ==
    /\ IsScalar(it.low) /\ IsScalar(it.high)
    /\ \A k \in 1 .. Len(outF) : IsScalar(outF[k])
    /\ \A k \in 1 .. Len(outB) : IsScalar(outB[k])
    /\ \A sb \in Bounds, eb \in Bounds :
          IsScalar(from_bounds(sb, eb).low) /\ IsScalar(from_bounds(sb, eb).high)

\* next() has stepped over the surrogates upwards and next_back() has
\* stepped down from the last char.
C27_Witness ==
    /\ \E k \in 1 .. Len(outF) - 1 :
          outF[k] = BEFORE_SURROGATE /\ outF[k + 1] = AFTER_SURROGATE
    /\ Len(outB) > 0 /\ outB[1] = AFTER_SURROGATE + 1
    /\ it.low = AFTER_SURROGATE + 1 /\ it.high = AFTER_SURROGATE

---------------------------------------------------------------------------
(* What insert leaves alone                                                *)

\* C28: insert(c) on a canonical set returns normally and changes the
\* membership of no char other than c: every d # c is held after the call
\* exactly when it was held before.
C28_InsertFrame ==
    (nops = 1 /\ op = "insert") =>
        /\ status = "ok"
        /\ \A d \in ProbeChars \ {arg.low} : Member(ranges, d) <=> Member(prev, d)

---------------------------------------------------------------------------
(* next and next_back on one iterator                                      *)

\* C29: under every interleaving of next() and next_back() the values of
\* next() are the first ones of the range's scalar values in ascending
\* order, the values of next_back() the first ones in descending order, the
\* two never meet (every next() value is below every next_back() value),
\* and once a call has returned None every scalar value of the range has
\* been yielded exactly once: the values of next() followed by those of
\* next_back() back to front are the whole ascending list, r.len() values.
C29_EachOnce ==
    LET all == Ascending(Scalars(src)) IN
    /\ IsPrefix(outF, all)
    /\ IsPrefix(outB, Reverse(all))
    /\ Len(outF) + Len(outB) <= Len(all)
    /\ \A j \in 1 .. Len(outF), k \in 1 .. Len(outB) : outF[j] < outB[k]
    /\ nones > 0 =>
          /\ outF \o Reverse(outB) = all
          /\ Len(outF) + Len(outB) = range_len(src)

\* A range over both sides of the surrogates, taken from both ends in turn
\* until a call returned None, U+D7FF by next() and U+E000 by next_back().
C29_Witness ==
    /\ nones > 0
    /\ Len(outF) >= 2 /\ Len(outB) >= 2
    /\ outF[Len(outF)] = BEFORE_SURROGATE /\ outB[Len(outB)] = AFTER_SURROGATE

---------------------------------------------------------------------------
(* FromIterator for CharSetBuf: one call on sampled sequences.             *)

\* iter.for_each(|c| set.insert(c)) from the k-th item on, for each result
\* the calls before may have had; a panic ends the calls.
RECURSIVE extend_chars(_, _, _, _)
extend_chars(outs, s, k, dbg) ==
    IF k > Len(s) THEN outs
    ELSE extend_chars(
             UNION { IF o.status = "ok" THEN insert(o.ranges, s[k], dbg) ELSE {o} : o \in outs },
             s, k + 1, dbg)

\* iter.for_each(|r| set.insert_range(r))
RECURSIVE extend_ranges(_, _, _, _)
extend_ranges(outs, s, k, dbg) ==
    IF k > Len(s) THEN outs
    ELSE extend_ranges(
             UNION { IF o.status = "ok" THEN insert_range(o.ranges, s[k], dbg) ELSE {o} : o \in outs },
             s, k + 1, dbg)

\* impl FromIterator<char> for CharSetBuf
from_iter_chars(s, dbg) == extend_chars({Done(<<>>)}, s, 1, dbg)

\* impl FromIterator<CharRange> for CharSetBuf
from_iter_ranges(s, dbg) == extend_ranges({Done(<<>>)}, s, 1, dbg)

\* The sequences of at most MaxChars sampled chars.
CharSeqs == UNION { [1 .. n -> SampleChars] : n \in 0 .. MaxChars }

\* b holds the items of a in some order.
IsPermutation(a, b) ==
    /\ Len(a) = Len(b)
    /\ \A c \in SampleChars :
          Cardinality({ k \in 1 .. Len(a) : a[k] = c }) = Cardinality({ k \in 1 .. Len(b) : b[k] = c })

\* The singleton ranges of the chars of a.
Singletons(a) == [k \in 1 .. Len(a) |-> singleton(a[k])]

InitCollect ==
    /\ build \in Builds
    /\ ranges = <<>> /\ s0 = <<>> /\ prev = <<>>
    /\ op = "new" /\ arg = empty /\ status = "ok" /\ nops = 0
    /\ IterIdle /\ CallIdle /\ PairIdle /\ TrieIdle

\* a.collect::<CharSetBuf>(), b.collect::<CharSetBuf>() for a permutation b
\* of a, and the singleton ranges of a collected.
FromIter ==
    /\ fn = "none"
    /\ \E a \in CharSeqs, b \in CharSeqs :
          /\ IsPermutation(a, b)
          /\ \E x \in from_iter_chars(a, Dbg), y \in from_iter_chars(b, Dbg),
                z \in from_iter_ranges(Singletons(a), Dbg) :
                /\ fn' = "from_iter" /\ inp' = <<a, b>>
                /\ ret' = [chars |-> x, permuted |-> y, singletons |-> z]
    /\ UNCHANGED <<setvars, itervars, pairvars, trievars>>

NextCollect == FromIter

SpecCollect == InitCollect /\ [][NextCollect]_vars

\* C30: from_iter over a sequence of chars, over any permutation of it and
\* over the singleton ranges of its chars all return normally with the same
\* range list.
C30_OrderIndependent ==
    fn = "from_iter" =>
        /\ ret.chars.status = "ok" /\ ret.permuted.status = "ok"
        /\ ret.singletons.status = "ok"
        /\ ret.chars.ranges = ret.permuted.ranges
        /\ ret.chars.ranges = ret.singletons.ranges
====
